---- MODULE Spec2Model ----
(***************************************************************************)
(* Model of the chat widget of chatbot_poc_youth:                          *)
(*   - ChatAPI.sendMessage (src/src/services/api.ts), the streaming        *)
(*     consumer of the newline-delimited "data:" records;                  *)
(*   - FloatingChatbot.handleSendMessage (src/unnamed/part_005), the       *)
(*     transcript that the callbacks of sendMessage mutate.                *)
(*                                                                         *)
(* Strings are sequences of characters; a character is a TLA+ string.      *)
(* The response body is a sequence of bytes; the bytes of a record's JSON  *)
(* payload are abbreviated to  { type content session_id }  , one byte per *)
(* field, except that the content U+00FC takes the two bytes C3 BC.        *)
(***************************************************************************)
EXTENDS Integers, Sequences, FiniteSets, TLC

\* ---------------------------------------------------------------- bounds
MaxExchanges == 2      \* calls of sendMessage in one behaviour
MaxRecords == 3        \* lines of a response body (SpecStream)
MaxRecordsMain == 1    \* lines of a response body (Spec)
MaxTail == 1           \* lines of a body whose last line has no "\n"
MaxChunk == 2          \* bytes of a chunk that does not end at a line end
MaxInFlight == 2       \* calls of sendMessage that have not settled
Epoch == 10            \* Date.now() when the widget is mounted
MaxStale == 2          \* event handlers run against one render's closures
Stride == 3            \* ms between two event handlers (Spec)

\* ------------------------------------------------------------ characters
NULL == "null"         \* JS null / undefined
LF == "LF"             \* "\n"
SP == "SP"             \* " "
CR == "CR"             \* "\r"
LEAD == "C3"           \* first byte of the UTF-8 encoding of U+00FC
CONT == "BC"           \* second byte of the UTF-8 encoding of U+00FC
UUML == "U+00FC"       \* the decoded character
REPL == "U+FFFD"       \* replacement character of TextDecoder
Whitespace == {SP, CR, LF}

Range(s) == { s[i] : i \in 1..Len(s) }

\* ------------------------------------------------- TextDecoder.decode
\* decoder.decode(value, { stream: true }): bytes to characters; an
\* incomplete multi-byte sequence at the end of the chunk is kept in the
\* decoder (pending) and completed by the next chunk.
SKIP == "skip"         \* a byte that yields no character of its own

\* The character byte i of bs decodes to: U+00FC for a lead byte followed by
\* its continuation byte, U+FFFD for either byte on its own, nothing yet for
\* a lead byte the chunk ends with.
DecodeAt(bs, i) ==
  IF bs[i] = LEAD
  THEN IF i = Len(bs) THEN SKIP
       ELSE IF bs[i + 1] = CONT THEN UUML ELSE REPL
  ELSE IF bs[i] = CONT
       THEN IF i > 1 /\ bs[i - 1] = LEAD THEN SKIP ELSE REPL
       ELSE bs[i]

DecodeBytes(bs) ==
  [text |-> SelectSeq([i \in 1..Len(bs) |-> DecodeAt(bs, i)], LAMBDA c : c # SKIP),
   pending |-> IF bs # <<>> /\ bs[Len(bs)] = LEAD THEN <<LEAD>> ELSE <<>>]

decode(pending, value) == DecodeBytes(pending \o value)

\* ------------------------------------------------------ String methods
\* String.prototype.split("\n"): always at least one element.
\* The separators' positions, with the positions just before and just after
\* the string.
Cuts(s) ==
  <<0>> \o SelectSeq([i \in 1..Len(s) |-> i], LAMBDA i : s[i] = LF) \o <<Len(s) + 1>>

SplitAt(s, cuts) ==
  [k \in 1..(Len(cuts) - 1) |-> SubSeq(s, cuts[k] + 1, cuts[k + 1] - 1)]

split(s) == SplitAt(s, Cuts(s))

RECURSIVE TrimStart(_)
TrimStart(s) ==
  IF s # <<>> /\ Head(s) \in Whitespace THEN TrimStart(Tail(s)) ELSE s

RECURSIVE TrimEnd(_)
TrimEnd(s) ==
  IF s # <<>> /\ s[Len(s)] \in Whitespace
  THEN TrimEnd(SubSeq(s, 1, Len(s) - 1)) ELSE s

trim(s) == TrimEnd(TrimStart(s))

startsWith(s, p) == Len(s) >= Len(p) /\ SubSeq(s, 1, Len(p)) = p

slice(s, n) == SubSeq(s, n + 1, Len(s))

DataPrefix == <<"d", "a", "t", "a", ":">>

\* -------------------------------------------------------- JSON.parse
RecordTypes == {"text", "end", "error", "ping"}
ContentChars == {"a", "x", UUML}
EmptyContent == "''"                \* the bytes of  "content":""
SessionChars == {"s1", "s2"}
NoSession == "-"                    \* the bytes of a missing/empty session_id

\* JSON.parse(payload) as StreamResponse: throws unless the payload is a
\* complete object.
JSONParse(p) ==
  IF /\ Len(p) = 5
     /\ p[1] = "{" /\ p[5] = "}"
     /\ p[2] \in RecordTypes
     /\ p[3] \in ContentChars \cup {EmptyContent}
     /\ p[4] \in SessionChars \cup {NoSession}
  THEN [ok |-> TRUE,
        type |-> p[2],
        content |-> IF p[3] = EmptyContent THEN <<>> ELSE <<p[3]>>,
        session_id |-> IF p[4] = NoSession THEN NULL ELSE p[4]]
  ELSE [ok |-> FALSE]

\* ----------------------------------------------------------- messages
ApologyPrefix == "Apology:"                \* part_005:225 text before ${error}
ContactSuffix == "Hotline:03-3322101"      \* part_005:225 text after ${error}
SystemApology == "SystemError"             \* part_005:245 fixed apology text

\* FloatingChatbot's initial transcript: the welcome entry.
WelcomeMessage == [id |-> 1, content |-> <<>>, isUser |-> FALSE, isWelcome |-> TRUE]

Message(id, content, isUser) ==
  [id |-> id, content |-> content, isUser |-> isUser, isWelcome |-> FALSE]

SetContentOfLast(prev, id, content) ==
  [i \in 1..Len(prev) |->
     IF i = Len(prev) THEN [prev[i] EXCEPT !.content = content] ELSE prev[i]]

\* prev.map(msg => msg.id === id ? { ...msg, content } : msg)
SetContent(prev, id, content) ==
  [i \in 1..Len(prev) |->
     IF prev[i].id = id THEN [prev[i] EXCEPT !.content = content] ELSE prev[i]]

\* prev.filter(msg => msg.id !== id)
RECURSIVE RemoveId(_, _)
RemoveId(prev, id) ==
  IF prev = <<>> THEN <<>>
  ELSE IF Head(prev).id = id THEN RemoveId(Tail(prev), id)
       ELSE <<Head(prev)>> \o RemoveId(Tail(prev), id)

\* ------------------------------------------- callbacks of handleSendMessage
\* st is the state a synchronous run of sendMessage reads and writes:
\*   sessionId, fullMessage (ChatAPI), accumulatedContent, messages,
\*   isTyping, isStreaming, currentStreamingMessage (FloatingChatbot),
\*   calls (the callbacks invoked so far) and returned (the loop has left
\*   through the return of the end branch).
Call(cb, arg) == [cb |-> cb, arg |-> arg]

onChunkShowsLastChunk(st, aiMessageId, chunk) ==
  LET acc == st.accumulatedContent \o chunk
  IN [st EXCEPT !.accumulatedContent = acc,
                !.currentStreamingMessage = acc,
                !.messages = SetContent(st.messages, aiMessageId, chunk),
                !.calls = Append(st.calls, Call("onChunk", chunk))]

onChunk(st, aiMessageId, chunk) ==
  LET acc == st.accumulatedContent \o chunk
  IN [st EXCEPT !.accumulatedContent = acc,
                !.currentStreamingMessage = acc,
                !.messages = SetContent(st.messages, aiMessageId, acc),
                !.calls = Append(st.calls, Call("onChunk", chunk))]

onComplete(st, aiMessageId, fullMessage) ==
  [st EXCEPT !.isStreaming = FALSE,
             !.currentStreamingMessage = <<>>,
             !.messages = SetContent(st.messages, aiMessageId, fullMessage),
             !.calls = Append(st.calls, Call("onComplete", fullMessage))]

\* t is the value of Date.now() read by the callback.
onError(st, aiMessageId, error, t) ==
  LET errorMessage ==
        Message(t + 2, <<ApologyPrefix>> \o error \o <<ContactSuffix>>, FALSE)
  IN [st EXCEPT !.isStreaming = FALSE,
                !.currentStreamingMessage = <<>>,
                !.isTyping = FALSE,
                !.messages = Append(RemoveId(st.messages, aiMessageId), errorMessage),
                !.calls = Append(st.calls, Call("onError", error))]

catchUnexpectedResetsTranscript(st, aiMessageId, t) ==
  LET errorMessage == Message(t + 2, <<SystemApology, ContactSuffix>>, FALSE)
  IN [st EXCEPT !.isStreaming = FALSE,
                !.currentStreamingMessage = <<>>,
                !.isTyping = FALSE,
                !.messages = <<WelcomeMessage, errorMessage>>]

\* The catch block of handleSendMessage (the promise of sendMessage rejected).
catchUnexpected(st, aiMessageId, t) ==
  LET errorMessage == Message(t + 2, <<SystemApology, ContactSuffix>>, FALSE)
  IN [st EXCEPT !.isStreaming = FALSE,
                !.currentStreamingMessage = <<>>,
                !.isTyping = FALSE,
                !.messages = Append(RemoveId(st.messages, aiMessageId), errorMessage)]

\* ------------------------------------------------ the loop over the lines
AdoptSessionLastWins(sessionId, data) ==
  IF data.session_id # NULL THEN data.session_id ELSE sessionId

\* if (data.session_id && !this.sessionId) this.sessionId = data.session_id
AdoptSession(sessionId, data) ==
  IF data.session_id # NULL /\ sessionId = NULL THEN data.session_id ELSE sessionId

TextBranchOverwrites(st, aiMessageId, content) ==
  onChunk([st EXCEPT !.fullMessage = content], aiMessageId, content)

TextBranchCumulative(st, aiMessageId, content) ==
  onChunk([st EXCEPT !.fullMessage = st.fullMessage \o content], aiMessageId,
          st.fullMessage \o content)

\* data.type === "text": fullMessage += data.content; onChunk(data.content)
TextBranch(st, aiMessageId, content) ==
  onChunk([st EXCEPT !.fullMessage = st.fullMessage \o content], aiMessageId, content)

EndBranchNoReturn(st, aiMessageId) ==
  onComplete(st, aiMessageId, st.fullMessage)

\* data.type === "end": onComplete(fullMessage); return fullMessage
EndBranch(st, aiMessageId) ==
  [onComplete(st, aiMessageId, st.fullMessage) EXCEPT !.returned = TRUE]

\* data.type === "error": onError(data.content); throw new Error(data.content).
\* The throw is inside the try whose catch is the one of ParseFailure, so it
\* is caught there and the loop over the lines goes on.
ErrorBranch(st, aiMessageId, content, t) ==
  onError(st, aiMessageId, content, t)

ParseFailureAborts(st) == [st EXCEPT !.returned = TRUE]

\* catch (parseError) { console.warn(...) }
ParseFailure(st) == st

DispatchLineStopsAtPadding(st, rawLine, aiMessageId, t) ==
  LET line == trim(rawLine) IN
  IF ~startsWith(line, DataPrefix) THEN [st EXCEPT !.returned = TRUE]
  ELSE LET data == JSONParse(trim(slice(line, 5))) IN
       IF ~data.ok THEN ParseFailure(st)
       ELSE LET s1 == [st EXCEPT !.sessionId = AdoptSession(st.sessionId, data)] IN
            CASE data.type = "text" -> TextBranch(s1, aiMessageId, data.content)
              [] data.type = "end" -> EndBranch(s1, aiMessageId)
              [] data.type = "error" -> ErrorBranch(s1, aiMessageId, data.content, t)
              [] OTHER -> s1

\* One iteration of  for (const rawLine of lines) .
DispatchLine(st, rawLine, aiMessageId, t) ==
  LET line == trim(rawLine) IN
  IF ~startsWith(line, DataPrefix) THEN st
  ELSE LET data == JSONParse(trim(slice(line, 5))) IN
       IF ~data.ok THEN ParseFailure(st)
       ELSE LET s1 == [st EXCEPT !.sessionId = AdoptSession(st.sessionId, data)] IN
            CASE data.type = "text" -> TextBranch(s1, aiMessageId, data.content)
              [] data.type = "end" -> EndBranch(s1, aiMessageId)
              [] data.type = "error" -> ErrorBranch(s1, aiMessageId, data.content, t)
              [] OTHER -> s1

RECURSIVE ProcessLines(_, _, _, _)
ProcessLines(st, lines, aiMessageId, t) ==
  IF lines = <<>> \/ st.returned THEN st
  ELSE ProcessLines(DispatchLine(st, Head(lines), aiMessageId, t),
                    Tail(lines), aiMessageId, t)

\* const lines = buffer.split("\n"); buffer = lines.pop() ?? ""
\* The lines the loop runs over, and the partial line kept for the next chunk.
CompleteLines(lines) == SubSeq(lines, 1, Len(lines) - 1)

RetainedLineDropped(lines) == <<>>

RetainedLine(lines) == lines[Len(lines)]

\* ------------------------------------------------------ response bodies
Payload(type, content, session) ==
  <<"{", type>> \o (IF content = UUML THEN <<LEAD, CONT>> ELSE <<content>>)
                \o <<session, "}">>

RecordLine(type, content, session) ==
  DataPrefix \o <<SP>> \o Payload(type, content, session)

TextA == RecordLine("text", "a", "s1")
TextU == <<SP>> \o DataPrefix \o Payload("text", UUML, NoSession) \o <<CR>>
EndLine == RecordLine("end", EmptyContent, "s2")
ErrorLine == RecordLine("error", "x", "s2")
Malformed == DataPrefix \o <<SP, "{", "text", "a">>
KeepAlive == <<":", "k">>

LineKinds == {TextA, TextU, EndLine, ErrorLine, Malformed, KeepAlive}
MainLineKinds == {TextA, EndLine}

\* The bytes of a body: the lines joined by "\n"; the last line is followed
\* by "\n" iff terminated.
RECURSIVE Join(_)
Join(ls) ==
  IF ls = <<>> THEN <<>>
  ELSE IF Len(ls) = 1 THEN Head(ls)
       ELSE Head(ls) \o <<LF>> \o Join(Tail(ls))

Body(ls, terminated) ==
  Join(ls) \o (IF terminated /\ ls # <<>> THEN <<LF>> ELSE <<>>)

Bodies(kinds, maxLines, terminated) ==
  { Body(ls, terminated) : ls \in UNION { [1..n -> kinds] : n \in 0..maxLines } }

\* The bodies of SpecStream: lines of every kind, all of them terminated or
\* (up to MaxTail lines) the last one not.
StreamBodies ==
  Bodies(LineKinds, MaxRecords, TRUE) \cup Bodies(LineKinds, MaxTail, FALSE)

\* The bodies of Spec: text and end records, or one error record.
MainBodies ==
  Bodies(MainLineKinds, MaxRecordsMain, TRUE) \cup {Body(<<ErrorLine>>, TRUE)}

\* ------------------------------------------------------------------ state
VARIABLES
  sessionId,                \* ChatAPI.sessionId
  now,                      \* the last value Date.now() returned
  messages,                 \* FloatingChatbot: the transcript
  isTyping,                 \* FloatingChatbot
  isStreaming,              \* FloatingChatbot
  currentStreamingMessage,  \* FloatingChatbot
  ex,                       \* the calls of handleSendMessage / sendMessage
  requests,                 \* the request payloads handed to fetch, in order
  isAuthenticated,          \* AuthContext: !!user
  message                   \* ChatInput: the text of the input field

chatVars == <<sessionId, now, messages, isTyping, isStreaming,
              currentStreamingMessage, ex, requests>>
inputVars == <<isAuthenticated, message>>

\* ------------------------------------------------------- window state
VARIABLES
  isMinimized,              \* FloatingChatbot
  isMaximized,              \* FloatingChatbot
  isClosed,                 \* FloatingChatbot
  position,                 \* FloatingChatbot: { x, y }
  isDragging,               \* FloatingChatbot
  dragOffset,               \* FloatingChatbot: { x, y }
  dragAnimationRef,         \* the animation frames requested by handleMouseMove
                            \* and not yet run or cancelled, oldest first; the
                            \* ref holds the id of the one requested last
  innerWidth,               \* window.innerWidth
  innerHeight,              \* window.innerHeight
  rendered,                 \* the state values the last render gave its callbacks
  unrendered,               \* event handlers run since the last render
  trail                     \* the handlers run last, with the flags they
                            \* started from: up to two toggles, or a drag update

windowVars == <<isMinimized, isMaximized, isClosed, position, isDragging,
                dragOffset, dragAnimationRef, innerWidth, innerHeight,
                rendered, unrendered, trail>>

\* ------------------------------------------------------ scroll observer
VARIABLES
  scrollTop,                \* scrollTop of the scroll area's viewport element
  listener,                 \* handleScroll as registered by the scroll effect:
                            \* <<>> or <<[attached, length]>>, attached = it
                            \* listens on the element that is in the document
  scrollTimeout,            \* the debounce timers started by handleScroll and
                            \* neither fired nor cleared, oldest first; the
                            \* effect's local holds the id of the one started last
  showScrollIndicator,      \* FloatingChatbot
  showScrollToTop,          \* FloatingChatbot
  effectLength,             \* messages.length when the scroll effect last ran
  scrolled                  \* a scroll event has reached the element in the document

scrollVars == <<scrollTop, listener, scrollTimeout, showScrollIndicator,
                showScrollToTop, effectLength, scrolled>>

uiVars == <<windowVars, scrollVars>>

vars == <<chatVars, inputVars, windowVars, scrollVars>>

Point(x, y) == [x |-> x, y |-> y]
Min(a, b) == IF a <= b THEN a ELSE b
Max(a, b) == IF a >= b THEN a ELSE b

\* a || b  on numbers: 0 is falsy.
Or(a, b) == IF a # 0 THEN a ELSE b

\* Math.max(0, Math.min(v, limit))
Clamp(v, limit) == Max(0, Min(v, limit))

DefaultViewport == [innerWidth |-> 1024, innerHeight |-> 768]
SmallViewport == [innerWidth |-> 400, innerHeight |-> 300]
LargeViewport == [innerWidth |-> 1280, innerHeight |-> 800]
Viewports == {DefaultViewport, SmallViewport, LargeViewport}

\* The state values a render captures in the callbacks it creates.
Snapshot ==
  [isMinimized |-> isMinimized, isMaximized |-> isMaximized,
   isClosed |-> isClosed, position |-> position,
   isDragging |-> isDragging, dragOffset |-> dragOffset]

\* getChatbotDimensions of the render r, called with the window vw x vh.
getChatbotDimensions(r, vw, vh) ==
  IF r.isMaximized
  THEN [width |-> vw - 40, height |-> vh - 40, x |-> 20, y |-> 20]
  ELSE IF r.isMinimized
       THEN [width |-> 320, height |-> 48,
             x |-> Or(r.position.x, vw - 320 - 24),
             y |-> Or(r.position.y, vh - 48 - 24)]
       ELSE [width |-> 480, height |-> 500,
             x |-> Or(r.position.x, vw - 480 - 24),
             y |-> Or(r.position.y, vh - 500 - 24)]

WindowInit ==
  /\ isMinimized = FALSE
  /\ isMaximized = FALSE
  /\ isClosed = TRUE
  /\ position = Point(0, 0)
  /\ isDragging = FALSE
  /\ dragOffset = Point(0, 0)
  /\ dragAnimationRef = <<>>
  /\ innerWidth = DefaultViewport.innerWidth
  /\ innerHeight = DefaultViewport.innerHeight
  /\ rendered = [isMinimized |-> FALSE, isMaximized |-> FALSE, isClosed |-> TRUE,
                 position |-> Point(0, 0), isDragging |-> FALSE,
                 dragOffset |-> Point(0, 0)]
  /\ unrendered = 0
  /\ trail = <<>>

\* CardContent (the scroll area and ChatInput) is rendered only while the
\* window is open and not minimized.
ContentMounted(r) == ~r.isClosed /\ ~r.isMinimized

\* The widget mounts closed: the scroll effect finds no element and returns.
ScrollInit ==
  /\ scrollTop = 0
  /\ listener = <<>>
  /\ scrollTimeout = <<>>
  /\ showScrollIndicator = FALSE
  /\ showScrollToTop = FALSE
  /\ effectLength = Len(<<WelcomeMessage>>)
  /\ scrolled = FALSE

Exchanges == 1..MaxExchanges

\* The locals of one call of handleSendMessage and of the sendMessage it
\* makes.  pc: idle (not called), fetch (await fetch), read (await
\* reader.read()), resolved, rejected.  stream/pos: the bytes of the
\* response body and how many of them read() has delivered.  calls: the
\* callbacks sendMessage has invoked.  cutInPayload: some chunk has ended
\* inside the JSON payload of a line.
IdleExchange ==
  [pc |-> "idle", stream |-> <<>>, pos |-> 0, pending |-> <<>>,
   buffer |-> <<>>, fullMessage |-> <<>>, aiMessageId |-> 0,
   accumulatedContent |-> <<>>, calls |-> <<>>, result |-> <<>>,
   cutInPayload |-> FALSE]

Init ==
  /\ sessionId = NULL
  /\ now = Epoch
  /\ messages = <<WelcomeMessage>>
  /\ isTyping = FALSE
  /\ isStreaming = FALSE
  /\ currentStreamingMessage = <<>>
  /\ ex = [e \in Exchanges |-> IdleExchange]
  /\ requests = <<>>
  /\ isAuthenticated = TRUE      \* checkAuth has restored the user
  /\ message = <<>>
  /\ WindowInit
  /\ ScrollInit

\* The values Date.now() may return in the next event handler: the one it
\* returned last (SameTick), or one Stride ms later (Later).
SameTick == {now}
Later == {now + Stride}

InFlight == { e \in Exchanges : ex[e].pc \in {"fetch", "read"} }

StateOf(e) ==
  [sessionId |-> sessionId,
   fullMessage |-> ex[e].fullMessage,
   accumulatedContent |-> ex[e].accumulatedContent,
   messages |-> messages,
   isTyping |-> isTyping,
   isStreaming |-> isStreaming,
   currentStreamingMessage |-> currentStreamingMessage,
   calls |-> ex[e].calls,
   returned |-> FALSE]

\* Writes st back; x is ex[e] with the fields st does not hold.
Commit(e, st, x) ==
  /\ sessionId' = st.sessionId
  /\ messages' = st.messages
  /\ isTyping' = st.isTyping
  /\ isStreaming' = st.isStreaming
  /\ currentStreamingMessage' = st.currentStreamingMessage
  /\ ex' = [ex EXCEPT ![e] = [x EXCEPT !.fullMessage = st.fullMessage,
                                       !.accumulatedContent = st.accumulatedContent,
                                       !.calls = st.calls]]

\* ---------------------------------------------------------------- actions
RequestPayloadWithoutSession(content, sid) ==
  [message |-> content, session_id |-> NULL]

\* payload of sendMessage:  session_id: this.sessionId || undefined
RequestPayload(content, sid) ==
  [message |-> content, session_id |-> IF sid # NULL THEN sid ELSE NULL]

UserText == <<"Hello">>

handleSendMessageKeepsLocals(e, content, t1, t2) ==
  /\ ex[e].pc = "idle"
  /\ \A d \in Exchanges : d < e => ex[d].pc # "idle"
  /\ Cardinality(InFlight) < MaxInFlight
  /\ t1 <= t2
  /\ now' = t2
  /\ messages' = messages \o <<Message(t1, content, TRUE), Message(t2 + 1, <<>>, FALSE)>>
  /\ isTyping' = FALSE
  /\ isStreaming' = TRUE
  /\ currentStreamingMessage' = <<>>
  /\ requests' = Append(requests, RequestPayload(content, sessionId))
  /\ ex' = [ex EXCEPT ![e] = [IdleExchange EXCEPT !.pc = "fetch",
                                                  !.aiMessageId = t2 + 1,
                                                  !.buffer = ex[Max(e - 1, 1)].buffer,
                                                  !.fullMessage = ex[Max(e - 1, 1)].fullMessage]]
  /\ UNCHANGED sessionId

\* handleSendMessage(content) up to the await of fetch inside sendMessage.
\* t1 and t2 are the two values of Date.now() it reads.
handleSendMessage(e, content, t1, t2) ==
  /\ ex[e].pc = "idle"
  /\ \A d \in Exchanges : d < e => ex[d].pc # "idle"
  /\ Cardinality(InFlight) < MaxInFlight
  /\ t1 <= t2
  /\ now' = t2
  /\ messages' = messages \o <<Message(t1, content, TRUE), Message(t2 + 1, <<>>, FALSE)>>
  /\ isTyping' = FALSE
  /\ isStreaming' = TRUE
  /\ currentStreamingMessage' = <<>>
  /\ requests' = Append(requests, RequestPayload(content, sessionId))
  /\ ex' = [ex EXCEPT ![e] = [IdleExchange EXCEPT !.pc = "fetch",
                                                  !.aiMessageId = t2 + 1]]
  /\ UNCHANGED sessionId

\* ChatInput: onChange of the input field, setMessage(e.target.value); the
\* field is rendered with disabled = isTyping || isStreaming.
onChange(texts) ==
  /\ ContentMounted(rendered)
  /\ ~(isTyping \/ isStreaming)
  /\ \E text \in texts : message' = text
  /\ message' # message
  /\ UNCHANGED <<chatVars, isAuthenticated>>

ChatInputSubmitWhileDisabled(e, clock) ==
  /\ ContentMounted(rendered)
  /\ isAuthenticated
  /\ trim(message) # <<>>
  /\ \E t1, t2 \in clock : handleSendMessage(e, trim(message), t1, t2)
  /\ message' = <<>>
  /\ UNCHANGED isAuthenticated

\* ChatInput.handleSubmit with disabled = isTyping || isStreaming and no
\* onLoginRequired (FloatingChatbot passes none): the submission is accepted,
\* or the handler returns without any effect.
ChatInputSubmit(e, clock) ==
  /\ ContentMounted(rendered)
  /\ isAuthenticated
  /\ trim(message) # <<>> /\ ~(isTyping \/ isStreaming)
  /\ \E t1, t2 \in clock : handleSendMessage(e, trim(message), t1, t2)
  /\ message' = <<>>
  /\ UNCHANGED isAuthenticated

\* handleFAQClick: a quick question of the welcome entry.
handleFAQClick(e, clock) ==
  /\ ContentMounted(rendered)
  /\ \E t1, t2 \in clock : handleSendMessage(e, UserText, t1, t2)
  /\ UNCHANGED inputVars

\* The catch of sendMessage (onError, rethrow) followed by the catch of
\* handleSendMessage that the rejection reaches.
TransportFailure(e, errorMessage, clock) ==
  \E t1, t2 \in clock :
    /\ t1 <= t2
    /\ now' = t2
    /\ \E st \in {catchUnexpected(onError(StateOf(e), ex[e].aiMessageId, errorMessage, t1),
                                  ex[e].aiMessageId, t2)} :
         Commit(e, st, [ex[e] EXCEPT !.pc = "rejected", !.result = errorMessage])
    /\ UNCHANGED <<requests, inputVars>>

FetchRejects(e, clock) ==
  /\ ex[e].pc = "fetch"
  /\ TransportFailure(e, <<"Failed to fetch">>, clock)

ResponseNotOk(e, clock) ==
  /\ ex[e].pc = "fetch"
  /\ TransportFailure(e, <<"HTTP 500">>, clock)

ResponseWithoutBody(e, clock) ==
  /\ ex[e].pc = "fetch"
  /\ TransportFailure(e, <<"Missing readable stream">>, clock)

\* fetch resolves with an ok response whose body has the bytes of stream.
ResponseOk(e, bodies) ==
  /\ ex[e].pc = "fetch"
  /\ \E stream \in bodies :
       ex' = [ex EXCEPT ![e].pc = "read", ![e].stream = stream]
  /\ UNCHANGED <<sessionId, now, messages, isTyping, isStreaming,
                 currentStreamingMessage, requests, inputVars>>

\* The positions at which a chunk that starts after pos may end: after a
\* "\n", at the end of the body and, unless byLine, up to MaxChunk bytes on.
ChunkEnds(stream, pos, byLine) ==
  { q \in (pos + 1)..Len(stream) :
      \/ q = Len(stream)
      \/ stream[q] = LF
      \/ ~byLine /\ q - pos <= MaxChunk }

CalledOnError(calls, from) ==
  \E i \in (from + 1)..Len(calls) : calls[i].cb = "onError"

\* reader.read() resolves with { done: false, value }: one pass of the
\* body of the while loop.  Date.now() is read by onError only.
ReaderRead(e, byLine, clock) ==
  /\ ex[e].pc = "read"
  /\ \E q \in ChunkEnds(ex[e].stream, ex[e].pos, byLine) :
     \E d \in {decode(ex[e].pending, SubSeq(ex[e].stream, ex[e].pos + 1, q))} :
     \E lines \in {split(ex[e].buffer \o d.text)} :
     \E st0 \in {ProcessLines(StateOf(e), CompleteLines(lines),
                              ex[e].aiMessageId, now)} :
     \E t \in (IF CalledOnError(st0.calls, Len(ex[e].calls)) THEN clock ELSE {now}) :
     \E st \in {IF t = now THEN st0
                ELSE ProcessLines(StateOf(e), CompleteLines(lines),
                                  ex[e].aiMessageId, t)} :
       /\ Commit(e, st,
                 [ex[e] EXCEPT !.pos = q,
                               !.pending = d.pending,
                               !.buffer = RetainedLine(lines),
                               !.cutInPayload = @ \/ ("{" \in Range(RetainedLine(lines))
                                                      /\ "}" \notin Range(RetainedLine(lines))),
                               !.pc = IF st.returned THEN "resolved" ELSE "read",
                               !.result = IF st.returned THEN st.fullMessage ELSE <<>>])
       /\ now' = t
  /\ UNCHANGED <<requests, inputVars>>

\* reader.read() resolves with { done: true }: break, return fullMessage.
ReaderDone(e) ==
  /\ ex[e].pc = "read"
  /\ ex[e].pos = Len(ex[e].stream)
  /\ ex' = [ex EXCEPT ![e].pc = "resolved", ![e].result = ex[e].fullMessage]
  /\ UNCHANGED <<sessionId, now, messages, isTyping, isStreaming,
                 currentStreamingMessage, requests, inputVars>>

\* reader.read() rejects: the connection dropped.
ReaderFails(e, clock) ==
  /\ ex[e].pc = "read"
  /\ TransportFailure(e, <<"network error">>, clock)

\* ------------------------------------------------------ window handlers
\* An event handler runs with the closures of the last render; at most
\* MaxStale of them run before React renders again.
HandlerRuns ==
  /\ unrendered < MaxStale
  /\ unrendered' = unrendered + 1
  /\ UNCHANGED <<chatVars, inputVars, scrollVars>>

Fresh == rendered = Snapshot

LastTwo(t) == IF Len(t) > 2 THEN SubSeq(t, Len(t) - 1, Len(t)) ELSE t

Ran(event) ==
  [event |-> event, fresh |-> Fresh,
   isMinimized |-> isMinimized, isMaximized |-> isMaximized]

Toggled(event) ==
  LastTwo(SelectSeq(trail, LAMBDA t : t.event # "AnimationFrame") \o <<Ran(event)>>)

\* cancelAnimationFrame(dragAnimationRef.current): the frame requested last
\* is removed from the pending ones, if it is still among them.
cancelAnimationFrame(frames) ==
  IF frames = <<>> THEN <<>> ELSE SubSeq(frames, 1, Len(frames) - 1)

\* clearTimeout(scrollTimeout): the timer started last is removed from the
\* pending ones, if it is still among them.
clearTimeout(timers) ==
  IF timers = <<>> THEN <<>> ELSE SubSeq(timers, 1, Len(timers) - 1)

\* setTimeout(..., 50) of the handleScroll registered as l: the callback with
\* the element and messages.length it captures; cancels = the number of
\* pending timers this call cleared before starting its own.
Timer(l, cancels) ==
  [attached |-> l.attached, length |-> l.length, cancels |-> cancels]

\* A listener or timer whose element has left the document.
Detached(l) == [i \in DOMAIN l |-> [l[i] EXCEPT !.attached = FALSE]]

\* The scroll effect (deps [messages.length]) at a commit; kept = the scroll
\* area element of the previous render is still in the document, mounted =
\* there is one now.  When messages.length has changed: the cleanup removes
\* the listener and clears the timer, then the effect queries the element,
\* returns if there is none, else registers handleScroll and calls it once.
ScrollEffect(kept, mounted) ==
  IF Len(messages) # effectLength
  THEN /\ effectLength' = Len(messages)
       /\ listener' = IF mounted
                      THEN <<[attached |-> TRUE, length |-> Len(messages)]>>
                      ELSE <<>>
       /\ scrollTimeout' = clearTimeout(scrollTimeout)
                             \o [i \in DOMAIN listener' |-> Timer(listener'[i], 0)]
  ELSE /\ effectLength' = effectLength
       /\ listener' = IF kept THEN listener ELSE Detached(listener)
       /\ scrollTimeout' = IF kept THEN scrollTimeout ELSE Detached(scrollTimeout)

\* React renders and commits: the callbacks are created anew; the cleanup of
\* the drag effect (deps isDragging, handleMouseMove, handleMouseUp) cancels
\* the requested animation frame; CardContent is mounted or unmounted with
\* the flags (a new scroll element starts at the top, a new ChatInput starts
\* empty); the scroll effect runs.
Render ==
  /\ unrendered > 0 \/ Len(messages) # effectLength
  /\ rendered' = Snapshot
  /\ unrendered' = 0
  /\ dragAnimationRef' =
       IF rendered.isDragging
          /\ [Snapshot EXCEPT !.isClosed = rendered.isClosed] # rendered
       THEN cancelAnimationFrame(dragAnimationRef) ELSE dragAnimationRef
  /\ UNCHANGED <<isMinimized, isMaximized, isClosed, position, isDragging,
                 dragOffset, innerWidth, innerHeight, trail>>
  /\ \E kept \in {ContentMounted(rendered) /\ ContentMounted(Snapshot)} :
       /\ message' = IF kept THEN message ELSE <<>>
       /\ scrollTop' = IF kept THEN scrollTop ELSE 0
       /\ scrolled' = (kept /\ scrolled)
       /\ ScrollEffect(kept, ContentMounted(Snapshot))
  /\ UNCHANGED <<chatVars, isAuthenticated, showScrollIndicator, showScrollToTop>>

toggleMinimizeKeepsMaximized ==
  /\ HandlerRuns
  /\ ~rendered.isClosed
  /\ isMinimized' = ~rendered.isMinimized
  /\ trail' = Toggled("toggleMinimize")
  /\ UNCHANGED <<isMaximized, isClosed, position, isDragging, dragOffset,
                 dragAnimationRef, innerWidth, innerHeight, rendered>>

\* setIsMinimized(!isMinimized); setIsMaximized(false)
toggleMinimize ==
  /\ HandlerRuns
  /\ ~rendered.isClosed
  /\ isMinimized' = ~rendered.isMinimized
  /\ isMaximized' = FALSE
  /\ trail' = Toggled("toggleMinimize")
  /\ UNCHANGED <<isClosed, position, isDragging, dragOffset, dragAnimationRef,
                 innerWidth, innerHeight, rendered>>

toggleMaximizeKeepsMinimized ==
  /\ HandlerRuns
  /\ ~rendered.isClosed
  /\ isMaximized' = ~rendered.isMaximized
  /\ trail' = Toggled("toggleMaximize")
  /\ UNCHANGED <<isMinimized, isClosed, position, isDragging, dragOffset,
                 dragAnimationRef, innerWidth, innerHeight, rendered>>

\* setIsMaximized(!isMaximized); setIsMinimized(false)
toggleMaximize ==
  /\ HandlerRuns
  /\ ~rendered.isClosed
  /\ isMaximized' = ~rendered.isMaximized
  /\ isMinimized' = FALSE
  /\ trail' = Toggled("toggleMaximize")
  /\ UNCHANGED <<isClosed, position, isDragging, dragOffset, dragAnimationRef,
                 innerWidth, innerHeight, rendered>>

handleCloseEndsStreaming ==
  /\ unrendered < MaxStale
  /\ unrendered' = unrendered + 1
  /\ ~rendered.isClosed
  /\ isClosed' = TRUE
  /\ trail' = <<>>
  /\ isStreaming' = FALSE
  /\ messages' = SelectSeq(messages, LAMBDA m : m.isWelcome \/ m.isUser \/ m.content # <<>>)
  /\ UNCHANGED <<isMinimized, isMaximized, position, isDragging, dragOffset,
                 dragAnimationRef, innerWidth, innerHeight, rendered>>
  /\ UNCHANGED <<sessionId, now, isTyping, currentStreamingMessage, ex, requests,
                 inputVars, scrollVars>>

handleClose ==
  /\ HandlerRuns
  /\ ~rendered.isClosed
  /\ isClosed' = TRUE
  /\ trail' = <<>>
  /\ UNCHANGED <<isMinimized, isMaximized, position, isDragging, dragOffset,
                 dragAnimationRef, innerWidth, innerHeight, rendered>>

\* The trigger button, rendered while closed.
handleReopen ==
  /\ HandlerRuns
  /\ rendered.isClosed
  /\ isClosed' = FALSE
  /\ isMinimized' = FALSE
  /\ position' = Point(innerWidth - 480 - 24, innerHeight - 500 - 24)
  /\ trail' = <<>>
  /\ UNCHANGED <<isMaximized, isDragging, dragOffset, dragAnimationRef,
                 innerWidth, innerHeight, rendered>>

\* Where on the header the pointer goes down, relative to the window's
\* rendered origin.
Grabs == {Point(10, 10), Point(200, 30)}

\* onMouseDown of the header, at the rendered origin + grab.
handleMouseDown(grab) ==
  /\ HandlerRuns
  /\ ~rendered.isClosed
  /\ ~rendered.isMaximized
  /\ \E dims \in {getChatbotDimensions(rendered, innerWidth, innerHeight)} :
       dragOffset' = Point((dims.x + grab.x) - Or(rendered.position.x, dims.x),
                           (dims.y + grab.y) - Or(rendered.position.y, dims.y))
  /\ isDragging' = TRUE
  /\ trail' = <<>>
  /\ UNCHANGED <<isMinimized, isMaximized, isClosed, position,
                 dragAnimationRef, innerWidth, innerHeight, rendered>>

\* Pointer positions of mousemove events (they may lie outside the window).
Pointers == {Point(-50, -50), Point(300, 200), Point(5000, 5000)}

\* requestAnimationFrame(callback) of the mousemove event at (clientX,
\* clientY): the callback with what it captures; cancels = the number of
\* pending frames this event cancelled before requesting its own.
Frame(clientX, clientY, cancels) ==
  [clientX |-> clientX, clientY |-> clientY, closure |-> rendered,
   cancels |-> cancels]

handleMouseMoveKeepsFrame(clientX, clientY) ==
  /\ HandlerRuns
  /\ rendered.isDragging
  /\ ~rendered.isMaximized
  /\ dragAnimationRef' = Append(dragAnimationRef, Frame(clientX, clientY, 0))
  /\ trail' = <<>>
  /\ UNCHANGED <<isMinimized, isMaximized, isClosed, position, isDragging,
                 dragOffset, innerWidth, innerHeight, rendered>>

\* The mousemove listener of the drag effect (registered by a render with
\* isDragging): cancel the requested frame and request one for this event.
handleMouseMove(clientX, clientY) ==
  /\ HandlerRuns
  /\ rendered.isDragging
  /\ ~rendered.isMaximized
  /\ \E kept \in {cancelAnimationFrame(dragAnimationRef)} :
       dragAnimationRef' =
         Append(kept, Frame(clientX, clientY, Len(dragAnimationRef) - Len(kept)))
  /\ dragAnimationRef' # dragAnimationRef
  /\ trail' = <<>>
  /\ UNCHANGED <<isMinimized, isMaximized, isClosed, position, isDragging,
                 dragOffset, innerWidth, innerHeight, rendered>>

AnimationFrameUnclamped ==
  /\ HandlerRuns
  /\ dragAnimationRef # <<>>
  /\ \E f \in {dragAnimationRef[1]} :
       position' = Point(f.clientX - f.closure.dragOffset.x,
                         f.clientY - f.closure.dragOffset.y)
  /\ dragAnimationRef' = Tail(dragAnimationRef)
  /\ trail' = <<Ran("AnimationFrame")>>
  /\ UNCHANGED <<isMinimized, isMaximized, isClosed, isDragging, dragOffset,
                 innerWidth, innerHeight, rendered>>

\* The callback of requestAnimationFrame: the drag update.
AnimationFrame ==
  /\ HandlerRuns
  /\ dragAnimationRef # <<>>
  /\ \E f \in {dragAnimationRef[1]} :
     \E dims \in {getChatbotDimensions(f.closure, innerWidth, innerHeight)} :
       position' = Point(Clamp(f.clientX - f.closure.dragOffset.x,
                               innerWidth - dims.width),
                         Clamp(f.clientY - f.closure.dragOffset.y,
                               innerHeight - dims.height))
  /\ dragAnimationRef' = Tail(dragAnimationRef)
  /\ trail' = <<Ran("AnimationFrame")>>
  /\ UNCHANGED <<isMinimized, isMaximized, isClosed, isDragging, dragOffset,
                 innerWidth, innerHeight, rendered>>

handleMouseUpKeepsFrame ==
  /\ HandlerRuns
  /\ rendered.isDragging
  /\ isDragging' = FALSE
  /\ trail' = <<>>
  /\ UNCHANGED <<isMinimized, isMaximized, isClosed, position, dragOffset,
                 dragAnimationRef, innerWidth, innerHeight, rendered>>

\* The mouseup listener of the drag effect.
handleMouseUp ==
  /\ HandlerRuns
  /\ rendered.isDragging
  /\ isDragging' = FALSE
  /\ dragAnimationRef' = cancelAnimationFrame(dragAnimationRef)
  /\ trail' = <<>>
  /\ UNCHANGED <<isMinimized, isMaximized, isClosed, position, dragOffset,
                 innerWidth, innerHeight, rendered>>

\* The window is resized to v and the resize listener runs.
handleResize(v) ==
  /\ HandlerRuns
  /\ <<v.innerWidth, v.innerHeight>> # <<innerWidth, innerHeight>>
  /\ innerWidth' = v.innerWidth
  /\ innerHeight' = v.innerHeight
  /\ \E dims \in {getChatbotDimensions(rendered, v.innerWidth, v.innerHeight)} :
       position' = Point(Clamp(Or(position.x, dims.x), v.innerWidth - dims.width),
                         Clamp(Or(position.y, dims.y), v.innerHeight - dims.height))
  /\ trail' = <<>>
  /\ UNCHANGED <<isMinimized, isMaximized, isClosed, isDragging, dragOffset,
                 dragAnimationRef, rendered>>

\* ------------------------------------------------------ scroll handlers
\* scrollHeight - clientHeight of the scroll area: how far it can scroll.
ScrollRange == 300
ScrollTops == {0, 150, 300}

\* scrollHeight - scrollTop - clientHeight < bottomThreshold
NearBottom(top, range) == range - top < 120

\* scrollTop < topThreshold
NearTop(top) == top < 120

\* A scroll event on the scroll area in the document, by the user or by
\* scrollToTop / scrollToBottom; handleScroll, if registered on this element,
\* clears the pending timer and starts one.
ScrollEventKeepsTimer ==
  /\ ContentMounted(rendered)
  /\ \E top \in ScrollTops : top # scrollTop /\ scrollTop' = top
  /\ scrollTimeout' = IF listener # <<>> /\ listener[1].attached
                      THEN Append(scrollTimeout, Timer(listener[1], 0))
                      ELSE scrollTimeout
  /\ scrolled' = TRUE
  /\ UNCHANGED <<listener, showScrollIndicator, showScrollToTop, effectLength>>
  /\ UNCHANGED <<chatVars, inputVars, windowVars>>

ScrollEvent ==
  /\ ContentMounted(rendered)
  /\ \E top \in ScrollTops : top # scrollTop /\ scrollTop' = top
  /\ \E kept \in {clearTimeout(scrollTimeout)} :
       scrollTimeout' =
         IF listener # <<>> /\ listener[1].attached
         THEN Append(kept, Timer(listener[1], Len(scrollTimeout) - Len(kept)))
         ELSE scrollTimeout
  /\ scrolled' = TRUE
  /\ UNCHANGED <<listener, showScrollIndicator, showScrollToTop, effectLength>>
  /\ UNCHANGED <<chatVars, inputVars, windowVars>>

\* The debounce timer of handleScroll fires, 50 ms after it was started: it
\* reads the element the effect queried (an element that has left the
\* document measures 0) and the messages.length the effect captured.
DebounceFires ==
  /\ scrollTimeout # <<>>
  /\ \E t \in {scrollTimeout[1]} :
     \E top \in {IF t.attached THEN scrollTop ELSE 0},
        range \in {IF t.attached THEN ScrollRange ELSE 0} :
       /\ showScrollIndicator' = (~NearBottom(top, range) /\ t.length > 4)
       /\ showScrollToTop' = (~NearTop(top) /\ t.length > 4)
  /\ scrollTimeout' = Tail(scrollTimeout)
  /\ UNCHANGED <<scrollTop, listener, effectLength, scrolled>>
  /\ UNCHANGED <<chatVars, inputVars, windowVars>>

\* ---------------------------------------------------------- specifications
\* Spec: the widget is opened, then up to MaxInFlight exchanges, started from
\* the quick questions, overlap; the event handlers run Stride ms apart;
\* bodies of up to MaxRecordsMain newline-terminated lines, delivered in
\* chunks that end at a line end.
Next ==
  \/ handleReopen /\ unrendered = 0
  \/ Render /\ unrendered > 0
  \/ \E e \in Exchanges :
    \/ handleFAQClick(e, Later) /\ UNCHANGED uiVars
    \/ FetchRejects(e, Later) /\ UNCHANGED uiVars
    \/ ResponseNotOk(e, Later) /\ UNCHANGED uiVars
    \/ ResponseWithoutBody(e, Later) /\ UNCHANGED uiVars
    \/ ResponseOk(e, MainBodies) /\ UNCHANGED uiVars
    \/ ReaderRead(e, TRUE, Later) /\ UNCHANGED uiVars
    \/ ReaderDone(e) /\ UNCHANGED uiVars
    \/ ReaderFails(e, Later) /\ UNCHANGED uiVars

Spec == Init /\ [][Next]_vars

\* SpecStream: one exchange, all of it within one clock tick; the bodies of
\* StreamBodies, split into chunks at every byte offset.
NextStream ==
  \/ handleReopen /\ unrendered = 0
  \/ Render /\ unrendered > 0
  \/ onChange({UserText}) /\ UNCHANGED uiVars
  \/ ChatInputSubmit(1, SameTick) /\ UNCHANGED uiVars
  \/ FetchRejects(1, SameTick) /\ UNCHANGED uiVars
  \/ ResponseNotOk(1, SameTick) /\ UNCHANGED uiVars
  \/ ResponseWithoutBody(1, SameTick) /\ UNCHANGED uiVars
  \/ ResponseOk(1, StreamBodies) /\ UNCHANGED uiVars
  \/ ReaderRead(1, FALSE, SameTick) /\ UNCHANGED uiVars
  \/ ReaderDone(1) /\ UNCHANGED uiVars
  \/ ReaderFails(1, SameTick) /\ UNCHANGED uiVars

SpecStream == Init /\ [][NextStream]_vars

\* AuthContext: setUser(data.user) / setUser(null), by checkAuth or logout.
setUser(authenticated) ==
  /\ isAuthenticated' = authenticated
  /\ isAuthenticated' # isAuthenticated
  /\ UNCHANGED <<chatVars, message>>

\* What the user types into the input field: nothing, blanks, a padded text.
Drafts == {<<>>, <<SP>>, <<SP, "Hi", CR>>}

\* SpecInput: the entry points of an exchange (the input field and the FAQ
\* quick questions) with the user signing in and out; every response is an
\* HTTP error or one end record.
InputBodies == {Body(<<EndLine>>, TRUE)}

NextInput ==
  \/ handleReopen /\ unrendered = 0
  \/ Render /\ unrendered > 0
  \/ onChange(Drafts) /\ UNCHANGED uiVars
  \/ \E authenticated \in BOOLEAN : setUser(authenticated) /\ UNCHANGED uiVars
  \/ \E e \in Exchanges :
    \/ ChatInputSubmit(e, Later) /\ UNCHANGED uiVars
    \/ handleFAQClick(e, Later) /\ UNCHANGED uiVars
    \/ ResponseNotOk(e, Later) /\ UNCHANGED uiVars
    \/ ResponseOk(e, InputBodies) /\ UNCHANGED uiVars
    \/ ReaderRead(e, TRUE, Later) /\ UNCHANGED uiVars

SpecInput == Init /\ [][NextInput]_vars

\* SpecWindow: the window alone, from the closed widget: open, close,
\* minimize, maximize, drag and resize, with up to MaxStale handlers run
\* between two renders.
NextWindow ==
  \/ Render
  \/ toggleMinimize
  \/ toggleMaximize
  \/ handleClose
  \/ handleReopen
  \/ \E grab \in Grabs : handleMouseDown(grab)
  \/ \E pointer \in Pointers : handleMouseMove(pointer.x, pointer.y)
  \/ AnimationFrame
  \/ handleMouseUp
  \/ \E v \in Viewports : handleResize(v)

SpecWindow == Init /\ [][NextWindow]_vars

\* React has rendered the current state and run its effects.
Committed == unrendered = 0 /\ Len(messages) = effectLength

\* SpecScroll: the scroll observer, with the window opened, closed and
\* minimized and the transcript growing by exchanges sent from the input
\* field; React renders after each event.
NextScroll ==
  \/ Render
  \/ Committed /\ handleReopen
  \/ Committed /\ handleClose
  \/ Committed /\ toggleMinimize
  \/ Committed /\ ScrollEvent
  \/ Committed /\ DebounceFires
  \/ Committed /\ onChange({UserText}) /\ UNCHANGED uiVars
  \/ \E e \in Exchanges :
    \/ Committed /\ ChatInputSubmit(e, Later) /\ UNCHANGED uiVars
    \/ Committed /\ ResponseOk(e, InputBodies) /\ UNCHANGED uiVars
    \/ Committed /\ ReaderRead(e, TRUE, Later) /\ UNCHANGED uiVars

SpecScroll == Init /\ [][NextScroll]_vars

\* SpecWidget: the window and the exchanges together: exchanges sent from
\* the input field, answered by a streamed body, an HTTP error or a dropped
\* connection, while the window is closed, reopened, minimized, maximized and
\* dragged; React renders after each event.
WidgetBodies == {Body(<<TextA, TextU, EndLine>>, TRUE)}
WidgetGrab == Point(10, 10)
WidgetPointer == Point(300, 200)

NextWidget ==
  \/ Render
  \/ Committed /\ handleReopen
  \/ Committed /\ handleClose
  \/ Committed /\ toggleMinimize
  \/ Committed /\ toggleMaximize
  \/ Committed /\ handleMouseDown(WidgetGrab)
  \/ Committed /\ handleMouseMove(WidgetPointer.x, WidgetPointer.y)
  \/ Committed /\ AnimationFrame
  \/ Committed /\ handleMouseUp
  \/ Committed /\ onChange({UserText}) /\ UNCHANGED uiVars
  \/ \E e \in Exchanges :
    \/ Committed /\ ChatInputSubmit(e, Later) /\ UNCHANGED uiVars
    \/ Committed /\ ResponseNotOk(e, Later) /\ UNCHANGED uiVars
    \/ Committed /\ ResponseOk(e, WidgetBodies) /\ UNCHANGED uiVars
    \/ Committed /\ ReaderRead(e, TRUE, Later) /\ UNCHANGED uiVars
    \/ Committed /\ ReaderFails(e, Later) /\ UNCHANGED uiVars

SpecWidget == Init /\ [][NextWidget]_vars

\* SpecReuse: the one ChatAPI instance used for exchange after exchange,
\* started from the quick questions: bodies that end with an end record,
\* that end without one, and that close after a line without its "\n";
\* connections that drop.
ReuseBodies ==
  {Body(<<TextA, TextU>>, FALSE), Body(<<TextU, EndLine>>, TRUE),
   Body(<<TextA, Malformed>>, TRUE)}

NextReuse ==
  \/ handleReopen /\ unrendered = 0
  \/ Render /\ unrendered > 0
  \/ \E e \in Exchanges :
    \/ handleFAQClick(e, Later) /\ UNCHANGED uiVars
    \/ ResponseOk(e, ReuseBodies) /\ UNCHANGED uiVars
    \/ ReaderRead(e, TRUE, Later) /\ UNCHANGED uiVars
    \/ ReaderDone(e) /\ UNCHANGED uiVars
    \/ ReaderFails(e, Later) /\ UNCHANGED uiVars

SpecReuse == Init /\ [][NextReuse]_vars

\* SpecStreamFair: SpecStream in which the network and the reader do not
\* stall forever: a step that stays possible is eventually taken.
SpecStreamFair == SpecStream /\ WF_vars(NextStream)

\* ------------------------------------------------- reading a whole body
\* What a body says, read as a whole: its newline-terminated lines, the
\* records among them, and the callbacks they call for.
LinesOf(bytes) == CompleteLines(split(DecodeBytes(bytes).text))

IsRecordLine(l) == startsWith(trim(l), DataPrefix)
RecordOf(l) == JSONParse(trim(slice(trim(l), 5)))
IsValidRecord(l) == IsRecordLine(l) /\ RecordOf(l).ok

RECURSIVE RecordsOf(_)
RecordsOf(ls) ==
  IF ls = <<>> THEN <<>>
  ELSE IF IsValidRecord(Head(ls)) THEN <<RecordOf(Head(ls))>> \o RecordsOf(Tail(ls))
       ELSE RecordsOf(Tail(ls))

\* The records up to and including the first end record.
RECURSIVE UpToEnd(_)
UpToEnd(rs) ==
  IF rs = <<>> THEN <<>>
  ELSE IF Head(rs).type = "end" THEN <<Head(rs)>>
       ELSE <<Head(rs)>> \o UpToEnd(Tail(rs))

RECURSIVE TextOf(_)
TextOf(rs) ==
  IF rs = <<>> THEN <<>>
  ELSE (IF Head(rs).type = "text" THEN Head(rs).content ELSE <<>>) \o TextOf(Tail(rs))

HasType(rs, type) == \E i \in 1..Len(rs) : rs[i].type = type

Delivered(e) == SubSeq(ex[e].stream, 1, ex[e].pos)
Terminated(bytes) == bytes = <<>> \/ bytes[Len(bytes)] = LF

CallsOf(e, cb) == SelectSeq(ex[e].calls, LAMBDA c : c.cb = cb)
LastCall(e) == ex[e].calls[Len(ex[e].calls)]

\* The body is k >= 0 text records followed by one end record, each on a
\* newline-terminated line, and nothing else.
TextsThenEnd(bytes) ==
  LET ls == LinesOf(bytes) IN
    /\ bytes # <<>>
    /\ Terminated(bytes)
    /\ \A i \in 1..Len(ls) :
         /\ IsValidRecord(ls[i])
         /\ RecordOf(ls[i]).type = (IF i = Len(ls) THEN "end" ELSE "text")

PlaceholderContent(e) ==
  { messages[i].content : i \in { j \in 1..Len(messages) : messages[j].id = ex[e].aiMessageId } }

\* ------------------------------------------------------------------ C1
\* C1: when the body is k >= 0 text records followed by one end record and
\* all of it has been delivered, sendMessage has resolved with the
\* concatenation of the text records' contents in arrival order, the last
\* callback is onComplete with that text, and the placeholder of the
\* exchange holds exactly that text.
C1_CompleteIsConcatenation ==
  \A e \in Exchanges :
    (ex[e].pos = Len(ex[e].stream) /\ TextsThenEnd(ex[e].stream))
    => \A text \in {TextOf(RecordsOf(LinesOf(ex[e].stream)))} :
         /\ ex[e].pc = "resolved"
         /\ ex[e].result = text
         /\ CallsOf(e, "onComplete") = <<Call("onComplete", text)>>
         /\ LastCall(e) = Call("onComplete", text)
         /\ PlaceholderContent(e) = {text}

C1_Witness ==
  /\ ex[1].stream = Body(<<TextA, TextU, EndLine>>, TRUE)
  /\ ex[1].pc = "resolved"
  /\ ex[1].result = <<"a", UUML>>
  /\ PlaceholderContent(1) = {<<"a", UUML>>}

\* ------------------------------------------------------------------ C2
\* The state sendMessage starts reading a body in (SpecStream: the only
\* exchange, so no session id is adopted yet), and the state it is in
\* after the bytes arrived as one single chunk.
ReadingStart(e) ==
  [StateOf(e) EXCEPT !.sessionId = NULL, !.fullMessage = <<>>,
                     !.accumulatedContent = <<>>, !.calls = <<>>]

AsOneChunk(e, bytes) ==
  ProcessLines(ReadingStart(e),
               CompleteLines(split(decode(<<>>, bytes).text)),
               ex[e].aiMessageId, now)

\* C2: for a body whose lines are all newline-terminated, however the bytes
\* delivered so far were split into chunks, the callbacks invoked, the
\* accumulated text and the adopted session id are those of the same bytes
\* delivered as one chunk; a line cut inside its payload is one record.
C2_FragmentationInvariant ==
  \A e \in Exchanges :
    (ex[e].pc \in {"read", "resolved"} /\ Terminated(ex[e].stream))
    => \A one \in {AsOneChunk(e, Delivered(e))} :
         /\ ex[e].calls = one.calls
         /\ ex[e].fullMessage = one.fullMessage
         /\ sessionId = one.sessionId
         /\ one.returned => ex[e].pc = "resolved"

C2_Witness ==
  /\ ex[1].stream = Body(<<TextA, TextU>>, TRUE)
  /\ ex[1].pos = Len(ex[1].stream)
  /\ ex[1].cutInPayload
  /\ ex[1].calls = <<Call("onChunk", <<"a">>), Call("onChunk", <<UUML>>)>>

\* ------------------------------------------------------------------ C3
IsTerminal(c) == c.cb \in {"onComplete", "onError"}
Settled(e) == ex[e].pc \in {"resolved", "rejected"}

\* C3: an exchange invokes at most one terminal callback (onComplete or
\* onError), nothing after it, and exactly one by the time it has settled.
C3_OneTerminalCallback ==
  \A e \in Exchanges :
    LET terminals == { i \in 1..Len(ex[e].calls) : IsTerminal(ex[e].calls[i]) } IN
      /\ Cardinality(terminals) <= 1
      /\ \A i \in terminals : i = Len(ex[e].calls)
      /\ Settled(e) => Cardinality(terminals) = 1

\* ------------------------------------------------------------------ C4
\* C4: once an error record has been parsed, onError has been called with
\* its content exactly once, it is the last callback, and the promise of
\* sendMessage is rejected.
C4_ErrorRecordAborts ==
  \A e \in Exchanges :
    \A rs \in {UpToEnd(RecordsOf(LinesOf(Delivered(e))))} :
      HasType(rs, "error")
      => /\ ex[e].pc = "rejected"
         /\ Len(CallsOf(e, "onError")) = 1
         /\ LastCall(e).cb = "onError"

\* ------------------------------------------------------------------ C5
Dispatching(r) == r.type \in {"text", "end", "error"}

\* C5: once an end record has been parsed, the promise is resolved with the
\* text accumulated before it, onComplete has been called exactly once,
\* with that text, as the last callback, and no record after the end record
\* has been dispatched.
C5_EndTerminates ==
  \A e \in Exchanges :
    \A rs \in {UpToEnd(RecordsOf(LinesOf(Delivered(e))))} :
      HasType(rs, "end")
      => \A text \in {TextOf(rs)} :
           /\ ex[e].pc = "resolved"
           /\ ex[e].result = text
           /\ CallsOf(e, "onComplete") = <<Call("onComplete", text)>>
           /\ LastCall(e) = Call("onComplete", text)
           /\ Len(ex[e].calls) = Len(SelectSeq(rs, Dispatching))

C5_Witness ==
  /\ ex[1].stream = Body(<<TextA, EndLine, TextU>>, TRUE)
  /\ ex[1].pos = Len(ex[1].stream)
  /\ ex[1].calls = <<Call("onChunk", <<"a">>), Call("onComplete", <<"a">>)>>
  /\ ex[1].result = <<"a">>

\* ------------------------------------------------------------------ C6
RECURSIVE ChunkCalls(_)
ChunkCalls(rs) ==
  IF rs = <<>> THEN <<>>
  ELSE (IF Head(rs).type = "text" THEN <<Call("onChunk", Head(rs).content)>> ELSE <<>>)
       \o ChunkCalls(Tail(rs))

\* C6: the onChunk calls are, in order, one per text record parsed, each
\* with the content of its record.
C6_ChunkPerTextRecord ==
  \A e \in Exchanges :
    CallsOf(e, "onChunk") = ChunkCalls(UpToEnd(RecordsOf(LinesOf(Delivered(e)))))

C6_Witness ==
  /\ ex[1].stream = Body(<<TextU, ErrorLine, TextA>>, TRUE)
  /\ ex[1].pos = Len(ex[1].stream)
  /\ CallsOf(1, "onChunk") = <<Call("onChunk", <<UUML>>), Call("onChunk", <<"a">>)>>

\* ------------------------------------------------------------------ C7
IsMalformed(l) == IsRecordLine(l) /\ ~RecordOf(l).ok

RECURSIVE ExpectedCalls(_, _)
ExpectedCalls(rs, text) ==
  IF rs = <<>> THEN <<>>
  ELSE LET r == Head(rs) IN
       CASE r.type = "text" ->
              <<Call("onChunk", r.content)>> \o ExpectedCalls(Tail(rs), text \o r.content)
         [] r.type = "end" -> <<Call("onComplete", text)>>
         [] r.type = "error" ->
              <<Call("onError", r.content)>> \o ExpectedCalls(Tail(rs), text)
         [] OTHER -> ExpectedCalls(Tail(rs), text)

\* C7: a body with a record line whose payload does not parse gives the
\* callbacks and the accumulated text of its valid records alone, in order;
\* the unparseable line triggers no callback and does not end the exchange.
C7_MalformedDropped ==
  \A e \in Exchanges :
    \A ls \in {LinesOf(Delivered(e))} :
      (ex[e].pc \in {"read", "resolved"} /\ \E i \in 1..Len(ls) : IsMalformed(ls[i]))
      => \A rs \in {UpToEnd(RecordsOf(ls))} :
           /\ ex[e].calls = ExpectedCalls(rs, <<>>)
           /\ ex[e].fullMessage = TextOf(rs)
           /\ ex[e].pc = "resolved" => (HasType(rs, "end") \/ ex[e].pos = Len(ex[e].stream))

C7_Witness ==
  /\ ex[1].stream = Body(<<TextA, Malformed, TextU>>, TRUE)
  /\ ex[1].pos = Len(ex[1].stream)
  /\ ex[1].pc = "read"
  /\ ex[1].calls = <<Call("onChunk", <<"a">>), Call("onChunk", <<UUML>>)>>
  /\ ex[1].fullMessage = <<"a", UUML>>

\* ------------------------------------------------------------------ C8
\* C8: when sendMessage has rejected, it has called onError exactly once,
\* as its last callback, with the description of the failure.
C8_FailureSurfacedOnce ==
  \A e \in Exchanges :
    ex[e].pc = "rejected"
    => /\ Len(CallsOf(e, "onError")) = 1
       /\ LastCall(e) = Call("onError", ex[e].result)

C10_RequestCarriesSession ==
  [][Len(requests') > Len(requests)
       => requests'[Len(requests')].session_id = sessionId]_vars

C10_Witness ==
  /\ Len(requests) = 2
  /\ requests[1].session_id = NULL
  /\ requests[2].session_id = "s1"

\* ----------------------------------------------------------------- C11
InputDisabled == isTyping \/ isStreaming
AwaitingTerminal(e) ==
  /\ ex[e].pc \in {"fetch", "read"}
  /\ \A i \in 1..Len(ex[e].calls) : ~IsTerminal(ex[e].calls[i])

\* C11: while an exchange has been submitted and neither onComplete nor
\* onError has fired for it, the chat input is disabled.
C11_InputDisabledUntilTerminal ==
  \A e \in Exchanges : AwaitingTerminal(e) => InputDisabled

\* ----------------------------------------------------------------- C12
\* C12: once an exchange has settled (the body has closed or the request
\* has failed), the input is eventually enabled again.
C12_InputEventuallyEnabled ==
  \A e \in Exchanges : Settled(e) ~> ~InputDisabled

\* ----------------------------------------------------------------- C13
HasContact(m) == ContactSuffix \in Range(m.content)

\* C13: once an exchange has finished, its placeholder is not in the
\* transcript with empty content; after an HTTP 500 response the placeholder
\* is gone, an apology with the contact number is in the transcript and the
\* input is enabled.
C13_NoEmptyEntryLeft ==
  \A e \in Exchanges :
    Settled(e)
    => /\ <<>> \notin PlaceholderContent(e)
       /\ (ex[e].pc = "rejected" /\ ex[e].result = <<"HTTP 500">>)
          => /\ PlaceholderContent(e) = {}
             /\ \E i \in 1..Len(messages) : HasContact(messages[i])
             /\ ~InputDisabled

\* ----------------------------------------------------------------- C14
Failed(e) == ex[e].pc = "rejected" \/ CallsOf(e, "onError") # <<>>

\* C14: for a failed exchange (onError fired or the promise rejected) the
\* placeholder is gone, exactly one message with the contact text is in the
\* transcript, and the transcript has grown by two entries (SpecStream: the
\* only exchange, so since the welcome entry alone).
C14_FailureReplacesPlaceholder ==
  \A e \in Exchanges :
    Failed(e)
    => /\ PlaceholderContent(e) = {}
       /\ Cardinality({ i \in 1..Len(messages) : HasContact(messages[i]) }) = 1
       /\ Len(messages) = Len(<<WelcomeMessage>>) + 2

\* ----------------------------------------------------------------- C15
\* C15: at most one call of sendMessage is in flight at any time.
C15_OneExchangeInFlight == Cardinality(InFlight) <= 1

\* ----------------------------------------------------------------- C16
\* A step in which handleSubmit accepts: the trimmed text of the input field
\* is sent as a new request and the field is cleared.
SubmissionAccepted ==
  /\ Len(requests') = Len(requests) + 1
  /\ requests'[Len(requests')].message = trim(message)
  /\ message' = <<>>

UserMessages(ms) == SelectSeq(ms, LAMBDA m : m.isUser)

\* C16: handleSubmit accepts only while the input is enabled and the text is
\* not empty after trimming; otherwise no request is sent and no user
\* message is appended from the input field.
C16_SubmissionRejected ==
  [][/\ SubmissionAccepted => (~InputDisabled /\ trim(message) # <<>>)
     /\ \A i \in 1..Len(UserMessages(messages')) :
          UserMessages(messages')[i].content # <<>>]_vars

C16_Witness ==
  /\ InputDisabled
  /\ trim(message) # <<>>
  /\ \E i \in 1..Len(requests) : requests[i].message = <<"Hi">>
  /\ \E i \in 1..Len(messages) : messages[i].isUser /\ messages[i].content = <<"Hi">>

\* ----------------------------------------------------------------- C17
\* C17: every step that starts an exchange (sends a request) is taken while
\* isAuthenticated is true.
C17_NoExchangeWithoutLogin ==
  [][Len(requests') > Len(requests) => isAuthenticated]_vars

\* ----------------------------------------------------------------- C18
\* C18: isMinimized and isMaximized are never both true, whatever the
\* sequence of toggles, close and reopen, including toggles run with the
\* flag values of an earlier render.
C18_NeverBothFlags == ~(isMinimized /\ isMaximized)

C18_Witness ==
  /\ Len(trail) = 2
  /\ trail[1].event = "toggleMinimize"
  /\ trail[2].event = "toggleMaximize" /\ ~trail[2].fresh
  /\ isMaximized /\ ~isMinimized

\* ----------------------------------------------------------------- C19
Normal(t) == ~t.isMinimized /\ ~t.isMaximized

\* C19: run with the flags of the current render, toggleMinimize from
\* Open.Maximized gives minimized and not maximized, toggleMaximize from
\* Open.Minimized gives maximized and not minimized, and the same toggle
\* run twice from Open.Normal gives Open.Normal again.
C19_ToggleTransitions ==
  /\ \A t \in {trail[i] : i \in {Len(trail)} \ {0}} :
       /\ (t.event = "toggleMinimize" /\ t.fresh /\ t.isMaximized /\ ~t.isMinimized)
          => (isMinimized /\ ~isMaximized)
       /\ (t.event = "toggleMaximize" /\ t.fresh /\ t.isMinimized /\ ~t.isMaximized)
          => (isMaximized /\ ~isMinimized)
  /\ (/\ Len(trail) = 2
      /\ trail[1].event = trail[2].event
      /\ trail[1].event \in {"toggleMinimize", "toggleMaximize"}
      /\ trail[1].fresh /\ trail[2].fresh
      /\ Normal(trail[1]))
     => Normal(Snapshot)

C19_Witness ==
  /\ Len(trail) = 2
  /\ trail[1].event = "toggleMaximize" /\ trail[1].fresh /\ Normal(trail[1])
  /\ trail[2].event = "toggleMinimize" /\ trail[2].fresh /\ trail[2].isMaximized
  /\ isMinimized /\ ~isMaximized

\* ----------------------------------------------------------------- C20
\* A step that is a drag update: the requested animation frame runs.
DragUpdate ==
  /\ unrendered' = unrendered + 1
  /\ trail' # <<>>
  /\ trail'[1].event = "AnimationFrame"

\* Width and height of the mode the window is in.
ModeSize == getChatbotDimensions(Snapshot, innerWidth, innerHeight)

InViewport(p, size) ==
  /\ p.x >= 0
  /\ p.y >= 0
  /\ p.x + size.width <= innerWidth
  /\ p.y + size.height <= innerHeight

\* C20: for every viewport size and pointer position, the position a drag
\* update produces keeps the window of the current mode (normal 480x500,
\* minimized 320x48) inside the viewport.
C20_DragStaysInViewport ==
  [][(DragUpdate /\ ~isMaximized) => InViewport(position', ModeSize)]_vars

\* ----------------------------------------------------------------- C21
\* The window as the render draws it: left, top, width and height are those of
\* getChatbotDimensions().
RenderedBox == getChatbotDimensions(Snapshot, innerWidth, innerHeight)

\* C21: in every open state that has been rendered, the bounding box of the
\* window lies within the current viewport, after any sequence of drag,
\* toggle, close, reopen and resize events.
C21_BoxWithinViewport ==
  (~isClosed /\ Fresh) => InViewport(Point(RenderedBox.x, RenderedBox.y), RenderedBox)

\* ----------------------------------------------------------------- C22
\* A step in which the viewport is resized (and the resize listener runs).
ResizeEvent == <<innerWidth', innerHeight'>> # <<innerWidth, innerHeight>>

\* C22: after every viewport resize, in every window state (closed, normal,
\* minimized, maximized), the stored position is such that the window of the
\* current mode fits inside the new viewport.
C22_ResizeReclamps ==
  [][ResizeEvent => InViewport(position, ModeSize)']_vars

\* ----------------------------------------------------------------- C23
\* A step of the reopen action.
Reopened == isClosed /\ ~isClosed'

\* C23: reopen takes the widget from Closed to Open.Normal (not minimized,
\* not maximized) at the default bottom-right position
\* (innerWidth - 480 - 24, innerHeight - 500 - 24), whatever state the window
\* was closed in.
C23_ReopenIsNormal ==
  [][Reopened =>
       /\ ~isMinimized' /\ ~isMaximized'
       /\ position' = Point(innerWidth - 480 - 24, innerHeight - 500 - 24)]_vars

\* ----------------------------------------------------------------- C24
\* C24: no reachable state has isDragging and isMaximized both true.
C24_NoDragWhileMaximized == ~(isDragging /\ isMaximized)

\* ----------------------------------------------------------------- C25
\* The observer has settled after a scroll event on the rendered scroll area.
ScrollSettled ==
  /\ ContentMounted(rendered)
  /\ Committed
  /\ scrolled
  /\ scrollTimeout = <<>>

\* C25: with at most 4 messages both scroll affordances are off; with more
\* than 4, once the observer has settled after a scroll event,
\* jump-to-latest is shown iff the view is not within 120px of the bottom and
\* jump-to-oldest iff it is not within 120px of the top, also after the window
\* has been closed or minimized and restored.
C25_AffordancesTrackScroll ==
  /\ Len(messages) <= 4 => (~showScrollIndicator /\ ~showScrollToTop)
  /\ (Len(messages) > 4 /\ ScrollSettled) =>
       /\ showScrollIndicator = ~NearBottom(scrollTop, ScrollRange)
       /\ showScrollToTop = ~NearTop(scrollTop)

\* ----------------------------------------------------------------- C26
\* A step in which exchange e fails: the request is refused, answered with
\* an HTTP error or its connection drops, and sendMessage rejects.
FailsIn(e) == ex[e].pc # "rejected" /\ ex[e].pc' = "rejected"

PlaceholderIndex(e) ==
  CHOOSE i \in 1..Len(messages) : messages[i].id = ex[e].aiMessageId

\* C26: the step in which an exchange fails leaves the window flags and the
\* position unchanged, leaves the session id and the transcript entries before
\* the exchange's placeholder unchanged, and leaves the input enabled, so that
\* a new submission is accepted.
C26_FailureIsLocal ==
  [][\A e \in Exchanges :
       FailsIn(e) =>
         /\ UNCHANGED <<isClosed, isMinimized, isMaximized, isDragging, position>>
         /\ sessionId' = sessionId
         /\ \A k \in {PlaceholderIndex(e)} :
              SubSeq(messages', 1, k - 1) = SubSeq(messages, 1, k - 1)
         /\ ~InputDisabled']_vars

\* The first exchange adopted a session and then failed while the window
\* was maximized, and the next submission has been accepted.
C26_Witness ==
  /\ sessionId = "s1"
  /\ ex[1].pc = "rejected"
  /\ isMaximized
  /\ position # Point(0, 0)
  /\ Len(requests) = 2
  /\ requests[2].session_id = "s1"
  /\ ex[2].pc = "fetch"

\* ----------------------------------------------------------------- C27
\* The text of the records of exchange e delivered so far.
TextSoFar(e) == TextOf(UpToEnd(RecordsOf(LinesOf(Delivered(e)))))

Contents(ms) == [i \in 1..Len(ms) |-> ms[i].content]

\* The transcript of the first k exchanges by their requests and bodies
\* alone: the welcome entry, then per exchange the user's text and the text
\* received so far.
RECURSIVE ExpectedContents(_)
ExpectedContents(k) ==
  IF k = 0 THEN Contents(<<WelcomeMessage>>)
  ELSE ExpectedContents(k - 1) \o <<requests[k].message, TextSoFar(k)>>

\* C27: whatever window actions (close, reopen, minimize, maximize, drag)
\* happen while exchanges stream, as long as no exchange has failed the
\* transcript is the one the requests and the delivered records give, an
\* exchange whose body has been delivered has resolved with its text, and
\* isStreaming is set exactly while an exchange is in flight.
C27_WindowActionsDoNotAlterExchange ==
  (\A e \in Exchanges : ~Failed(e)) =>
    /\ Contents(messages) = ExpectedContents(Len(requests))
    /\ \A e \in Exchanges :
         (ex[e].pc \in {"read", "resolved"} /\ ex[e].pos = Len(ex[e].stream))
         => (ex[e].pc = "resolved" /\ ex[e].result = TextSoFar(e))
    /\ isStreaming = (InFlight # {})

\* The window was closed while maximized during the first exchange, which
\* went on streaming and completed.
C27_Witness ==
  /\ rendered.isClosed /\ isMaximized
  /\ position # Point(520, 244)
  /\ ex[1].pc = "resolved"
  /\ ex[2].pc = "idle"
  /\ PlaceholderContent(1) = {<<"a", UUML>>}
  /\ listener = <<[attached |-> FALSE, length |-> 3]>>

\* ----------------------------------------------------------------- C28
IsPrefix(a, b) == Len(a) <= Len(b) /\ SubSeq(b, 1, Len(a)) = a

\* The terminating event of exchange e has been received: sendMessage has
\* called onComplete or onError, or has settled.
TerminalReceived(e) ==
  Settled(e) \/ \E i \in 1..Len(ex[e].calls) : IsTerminal(ex[e].calls[i])

\* C28: in every step the content of an exchange's placeholder is a prefix
\* of its content after the step, and once the exchange's terminating event
\* has been received no step changes its message.
C28_ContentAppendOnly ==
  [][\A e \in Exchanges :
       /\ \A c \in PlaceholderContent(e) : \A d \in PlaceholderContent(e)' :
            IsPrefix(c, d)
       /\ TerminalReceived(e) => PlaceholderContent(e)' = PlaceholderContent(e)]_vars

\* A text record, the end record and one more text record have been
\* delivered: the placeholder holds the text received before the end.
C28_Witness ==
  /\ ex[1].stream = Body(<<TextU, EndLine, TextA>>, TRUE)
  /\ ex[1].pos = Len(ex[1].stream)
  /\ TerminalReceived(1)
  /\ PlaceholderContent(1) = {<<UUML>>}

\* ----------------------------------------------------------------- C29
\* C29: the ids of the transcript's messages are pairwise distinct and
\* increase in creation order (the order of the transcript).
C29_IdsDistinctIncreasing ==
  \A i, j \in 1..Len(messages) : i < j => messages[i].id < messages[j].id

\* ----------------------------------------------------------------- C30
\* The lines that start with the record prefix after trimming.
WithoutPadding(ls) == SelectSeq(ls, IsRecordLine)

\* C30: when complete lines that do not start with "data:" (after trimming)
\* have been delivered, the callbacks invoked, the accumulated text and the
\* session id are those of the same lines without them, and the exchange has
\* ended only if those lines end it or the body has.
C30_PaddingIgnored ==
  \A e \in Exchanges :
    \A ls \in {LinesOf(Delivered(e))} :
      (ex[e].pc \in {"read", "resolved"} /\ \E i \in 1..Len(ls) : ~IsRecordLine(ls[i]))
      => \A ref \in {ProcessLines(ReadingStart(e), WithoutPadding(ls),
                                   ex[e].aiMessageId, now)} :
           /\ ex[e].calls = ref.calls
           /\ ex[e].fullMessage = ref.fullMessage
           /\ sessionId = ref.sessionId
           /\ ex[e].pc = "resolved" => (ref.returned \/ ex[e].pos = Len(ex[e].stream))

C30_Witness ==
  /\ ex[1].stream = Body(<<KeepAlive, TextA, KeepAlive>>, TRUE)
  /\ ex[1].pos = Len(ex[1].stream)
  /\ ex[1].pc = "read"
  /\ ex[1].calls = <<Call("onChunk", <<"a">>)>>
  /\ sessionId = "s1"

\* ----------------------------------------------------------------- C31
\* C31: every text handed to onComplete by an exchange, and every result an
\* exchange resolves with, is the concatenation of the text records of that
\* exchange's own body delivered so far, whatever text or unparsed line the
\* calls before it were left with.
C31_ExchangesShareOnlySession ==
  \A e \in Exchanges :
    /\ \A i \in 1..Len(ex[e].calls) :
         ex[e].calls[i].cb = "onComplete" => ex[e].calls[i].arg = TextSoFar(e)
    /\ ex[e].pc = "resolved" => ex[e].result = TextSoFar(e)
    /\ ex[e].pc = "fetch" => (ex[e].buffer = <<>> /\ ex[e].fullMessage = <<>>)

\* The first call was left with accumulated text and an unparsed line when
\* its connection dropped; the second completed with its own text.
C31_Witness ==
  /\ ex[1].pc = "rejected"
  /\ ex[1].fullMessage = <<"a">>
  /\ ex[1].buffer = DecodeBytes(TextU).text
  /\ ex[2].stream = Body(<<TextU, EndLine>>, TRUE)
  /\ CallsOf(2, "onComplete") = <<Call("onComplete", <<UUML>>)>>
  /\ sessionId = "s1"

\* ----------------------------------------------------------------- C32
\* A step in which the pointer goes down on the header and a drag starts.
PointerDown == dragOffset' # dragOffset \/ (~isDragging /\ isDragging')

\* The requested frame belongs to the handlers of the state as it is now: no
\* pointer-down or toggle has run since the render that created them.
FrameIsCurrent ==
  /\ dragAnimationRef # <<>>
  /\ dragAnimationRef[1].closure.dragOffset = dragOffset
  /\ dragAnimationRef[1].closure.isMinimized = isMinimized
  /\ dragAnimationRef[1].closure.isMaximized = isMaximized

\* The pointer position minus the recorded offset, clamped per axis to
\* [0, viewport - size of the current mode].
Dragged(pointer) ==
  Point(Clamp(pointer.clientX - dragOffset.x, innerWidth - ModeSize.width),
        Clamp(pointer.clientY - dragOffset.y, innerHeight - ModeSize.height))

\* C32: the offset recorded at pointer-down is the pointer position minus the
\* rendered origin of the window (the point of the header that was grabbed);
\* while dragging and not maximized, each drag update of the current handlers
\* sets the position to the pointer position minus that offset, clamped per
\* axis to [0, viewport - size], and to exactly the pointer position minus
\* the offset when that lies within the bounds.
C32_DragFollowsPointer ==
  [][/\ PointerDown => dragOffset' \in Grabs
     /\ (DragUpdate /\ isDragging /\ ~isMaximized /\ FrameIsCurrent)
        => \A f \in {dragAnimationRef[1]} :
             /\ position' = Dragged(f)
             /\ InViewport(Point(f.clientX - dragOffset.x, f.clientY - dragOffset.y),
                           ModeSize)
                => position' = Point(f.clientX - dragOffset.x, f.clientY - dragOffset.y)]_vars

\* The header was grabbed at (10, 10) from its origin and the pointer moved
\* to (300, 200), within the bounds: the window is at (290, 190).
C32_Witness ==
  /\ isDragging /\ ~isMaximized
  /\ dragOffset = Point(10, 10)
  /\ trail # <<>> /\ trail[1].event = "AnimationFrame"
  /\ position = Point(290, 190)

\* ----------------------------------------------------------------- C33
\* A step in which a pointer-move requests its frame.
FrameRequested ==
  dragAnimationRef' # dragAnimationRef /\ Len(dragAnimationRef') >= Len(dragAnimationRef)

\* C33: at most one requested animation frame is pending at any time; a
\* pointer-move cancels the frame that was pending, so the one pending
\* afterwards is its own, and a drag update leaves none pending.
C33_OneFramePending ==
  [][/\ Len(dragAnimationRef') <= 1
     /\ FrameRequested =>
          dragAnimationRef'[Len(dragAnimationRef')].cancels = Len(dragAnimationRef)
     /\ DragUpdate => dragAnimationRef' = <<>>]_vars

\* A pointer-move arrived while the frame of the one before it was pending.
C33_Witness ==
  /\ isDragging
  /\ Len(dragAnimationRef) = 1
  /\ dragAnimationRef[1].cancels = 1

\* ----------------------------------------------------------------- C34
\* A step in which the observer handles a scroll event of its element.
ObservedScroll ==
  /\ scrollTop' # scrollTop
  /\ rendered' = rendered
  /\ listener # <<>> /\ listener[1].attached

FlagsChange ==
  showScrollIndicator' # showScrollIndicator \/ showScrollToTop' # showScrollToTop

\* C34: at most one debounce timer is pending at any time; a scroll event the
\* observer handles clears the pending timer and leaves its own as the only
\* one; the affordance flags change only in a step in which a timer fires;
\* and after the observer has been torn down and set up again on a change of
\* messages.length no timer of the old observer is pending.
C34_OneTimerPending ==
  [][/\ Len(scrollTimeout') <= 1
     /\ ObservedScroll =>
          scrollTimeout' = <<Timer(listener[1], Len(scrollTimeout))>>
     /\ FlagsChange => (scrollTimeout # <<>> /\ scrollTimeout' = Tail(scrollTimeout))
     /\ \A i \in 1..Len(scrollTimeout') :
          scrollTimeout'[i].length = effectLength']_vars

\* A second scroll event arrived before the timer of the first had fired.
C34_Witness ==
  /\ Len(scrollTimeout) = 1
  /\ scrollTimeout[1].cancels = 1
  /\ scrollTimeout[1].attached
  /\ scrollTimeout[1].length > 4

\* ----------------------------------------------------------------- C35
\* C35: while the window is open and not maximized, the origin that
\* getChatbotDimensions returns is the stored position (set by the last
\* reopen, drag update or resize), whatever its value, a coordinate 0
\* included.
C35_OriginIsStoredPosition ==
  (~isClosed /\ ~isMaximized) => Point(RenderedBox.x, RenderedBox.y) = position

\* ----------------------------------------------------------------- C36
\* The normal-mode window (480x500) at p lies inside the viewport vw x vh.
FitsNormal(p, vw, vh) ==
  /\ p.x >= 0
  /\ p.y >= 0
  /\ p.x + 480 <= vw
  /\ p.y + 500 <= vh

\* C36: while the window is open, a viewport resize leaves the stored position
\* unchanged whenever the normal-mode window at that position fits inside the
\* new viewport, in every mode (so that maximize, resize, un-maximize returns the window to where it
\* was).
C36_ResizeKeepsFittingPosition ==
  [][(ResizeEvent /\ ~isClosed /\ FitsNormal(position, innerWidth', innerHeight'))
       => position' = position]_vars

\* ----------------------------------------------------------------- C37
\* The contents of the messages of the transcript ms that have the id of the
\* placeholder of the call x; the text of the text records of its body
\* delivered so far; the call has failed.
ContentIn(ms, x) ==
  { ms[i].content : i \in { j \in 1..Len(ms) : ms[j].id = x.aiMessageId } }

BodyText(x) == TextOf(UpToEnd(RecordsOf(LinesOf(SubSeq(x.stream, 1, x.pos)))))

HasFailed(x) ==
  x.pc = "rejected" \/ \E i \in 1..Len(x.calls) : x.calls[i].cb = "onError"

\* C37: with exchanges that overlap, after every step the placeholder of each
\* exchange that has not failed holds exactly the text of the text records of
\* its own body delivered so far, and a step of one exchange (a chunk, its
\* completion, its failure) leaves the placeholder of every other exchange as
\* it was.
C37_OverlapKeepsPlaceholdersApart ==
  [][\A after \in {ex'}, ms \in {messages'} :
       \A e \in Exchanges :
         /\ (after[e].pc # "idle" /\ ~HasFailed(after[e]))
            => ContentIn(ms, after[e]) = {BodyText(after[e])}
         /\ HasFailed(after[e]) => ContentIn(ms, after[e]) = {}
         /\ \A d \in Exchanges \ {e} :
              (after[e] # ex[e] /\ ex[d].pc # "idle")
              => ContentIn(ms, ex[d]) = ContentIn(messages, ex[d])]_vars

\* Two exchanges overlapped: the first received its text and then failed
\* while the second was streaming; the second placeholder holds its own text.
C37_Witness ==
  /\ ex[1].pc = "rejected"
  /\ ex[1].fullMessage = <<"a">>
  /\ ex[2].pc = "read"
  /\ ex[2].calls # <<>>
  /\ Len(ex[1].calls) >= 2
  /\ messages[4].id = ex[2].aiMessageId
  /\ PlaceholderContent(2) = {<<UUML>>}

\* ----------------------------------------------------------------- C38
\* All the lines of a body, the last one included when no "\n" follows it.
AllLinesOf(bytes) == split(DecodeBytes(bytes).text)

\* C38: when the reader has reported done, the callbacks invoked and the
\* accumulated text are those of every record line of the body, a last line
\* without a newline after it included.
C38_TailDispatched ==
  \A e \in Exchanges :
    (ex[e].pc = "resolved" /\ ex[e].pos = Len(ex[e].stream))
    => \A rs \in {UpToEnd(RecordsOf(AllLinesOf(ex[e].stream)))} :
         /\ ex[e].calls = ExpectedCalls(rs, <<>>)
         /\ ex[e].result = TextOf(rs)

\* ----------------------------------------------------------------- C39
\* A step in which the pointer goes up and the drag ends.
PointerUp == isDragging /\ ~isDragging'

\* The drag has ended and React has rendered that: the listeners of the drag
\* effect are removed.
DragEnded == ~isDragging /\ ~rendered.isDragging

====
